---- MODULE Spec2Model ----
(***************************************************************************)
(* py-runner (src/lib.rs): a PythonModule handle owns the producer side of *)
(* an unbounded crossbeam task channel and the JoinHandle of one worker    *)
(* thread.  The worker takes the GIL, imports the module, reports the      *)
(* result of the import over a rendezvous channel and then runs the tasks  *)
(* it receives; every call of action() carries its own reply slot.         *)
(***************************************************************************)
EXTENDS Integers, Sequences, FiniteSets, TLC

\* ------------------------------------------------------------------ bounds
NumHandles == 2
NumCallers == 2
MaxCalls == 2
NumExecs == 2

Handles == 1..NumHandles
Callers == 1..NumCallers
Execs == 1..NumExecs

\* ------------------------------------------------------- paths and modules
\* Paths are sequences of components; Path::join appends one component.
Join(path, name) == Append(path, name)

ProjectMain == <<"my-project", "main.py">>
ModuleDir == <<"my-module">>
ModuleInit == Join(ModuleDir, "__init__.py")
BrokenMain == <<"broken", "main.py">>
NoPath == <<>>

\* Variant: no file check.
is_fileAlways(path) == TRUE

\* Path::is_file: the regular files of the file system the tests run in,
\* plus one file whose import raises.
RegularFiles == {ProjectMain, ModuleInit, BrokenMain}
is_file(path) == path \in RegularFiles

\* loader.exec_module raises for a file whose top-level code raises.
LoaderRaises(file) == file = BrokenMain

\* The constructor calls a host program makes: new_project(path) and
\* new_module(dir), on present and on absent entry files.
LoadCalls ==
    { [fn |-> "new_project", path |-> ProjectMain],
      [fn |-> "new_project", path |-> BrokenMain],
      [fn |-> "new_project", path |-> <<"my-project", "nope.py">>],
      [fn |-> "new_module", path |-> ModuleDir],
      [fn |-> "new_module", path |-> <<"empty-dir">>] }

\* new_module joins "__init__.py" and delegates to new_project.
InitFile(call) ==
    IF call.fn = "new_module" THEN Join(call.path, "__init__.py") ELSE call.path

\* ------------------------------------------------------------- operations
\* The fn pointers handed to action(): the tests' add(1, 2), a read of the
\* module's __file__ (the init_file it was created from, so it differs from
\* module to module), an operation that returns Err, and one that panics.
Ops == {"add", "file", "raise", "panic"}

\* PyResult<T> as action() hands it back; Panic stands for a call that
\* unwound instead of returning.  class is the exception type of a PyErr.
OkVal(v) == [tag |-> "Ok", val |-> v, str |-> NoPath, msg |-> "", class |-> ""]
OkStr(p) == [tag |-> "Ok", val |-> 0, str |-> p, msg |-> "", class |-> ""]
PyErrNew(class, m) == [tag |-> "Err", val |-> 0, str |-> NoPath, msg |-> m, class |-> class]
ErrVal(m) == PyErrNew("PyException", m)
NoVal == [tag |-> "None", val |-> 0, str |-> NoPath, msg |-> "", class |-> ""]
Panicked == [tag |-> "Panic", val |-> 0, str |-> NoPath, msg |-> "", class |-> ""]

\* call(py, module): what the operation produces against a loaded module.
Eval(op, module) ==
    CASE op = "add" -> OkVal(1 + 2)
      [] op = "file" -> OkStr(module)
      [] op = "raise" -> ErrVal("TaskError")
      [] op = "panic" -> Panicked
      [] OTHER -> NoVal

WorkerExited == PyErrNew("PyRuntimeError", "Python thread has exited")

\* Variant: the failed send is unwrapped instead of mapped to an error.
SendFailedUnwrap == Panicked

SendFailed == PyErrNew("PyRuntimeError", "Task send failed")

\* ---------------------------------------------------------------- messages
\* Option<Box<dyn FnOnce>>: Some(task) carries the caller's operation and the
\* sender half of that call's slot (named by its caller); n numbers the
\* successful sends on the channel, for the record of the order.
None == [kind |-> "None", c |-> 0, n |-> 0, op |-> ""]
Some(c, n, op) == [kind |-> "Some", c |-> c, n |-> n, op |-> op]
Disconnected == [kind |-> "Err", c |-> 0, n |-> 0, op |-> ""]
NoMsg == [kind |-> "", c |-> 0, n |-> 0, op |-> ""]

Free == <<>>
W(h) == <<"worker", h>>
E(e) == <<"exec", e>>

VARIABLES
    pyReady,    \* with_gil finds (or can start) an initialized interpreter
    hst,        \* handle: "none" | "recv" | "held" | "notfound" | "initerr"
                \*         | "dropped" | "droppanic"
    hfile,      \* init_file of the load
    wpc,        \* worker thread position
    wmod,       \* module loaded by the worker
    wcur,       \* message the worker took from the task channel
    initSent,   \* value the worker sent on the init channel
    initTaken,  \* init_receiver.recv() took the value
    initGone,   \* init_sender dropped
    chan,       \* task channel contents
    rcvAlive,   \* task_receiver not dropped
    gil,        \* holder of the GIL
    cpc,        \* caller position inside action()
    ch,         \* handle the caller's current/last call is on
    cop,        \* operation of that call
    ctk,        \* number of that call's send on the channel (0: not sent)
    slot,       \* the call's sync_channel(1)
    cres,       \* what the last call returned
    late,       \* the call started after the worker had left its task loop
    nrep,       \* values ever placed into the current slot
    nrun,       \* times the current task was invoked
    calls,      \* calls of action() and of execute_code started so far
    nsent,      \* sends that succeeded on the task channel
    nran,       \* tasks the worker invoked
    epc,        \* execute_code caller position
    esrc,       \* source string of the caller's current/last execute_code
    efn,        \* extractor f of that call
    eglobals,   \* the call's globals dict
    eres,       \* what the last execute_code returned
    lastNs      \* bindings of the dict the last completed call dropped

hvars == <<pyReady, hst, hfile>>
wvars == <<wpc, wmod, wcur, initSent, initTaken, initGone, chan, rcvAlive, gil>>
cvars == <<cpc, ch, cop, ctk, slot, cres, late, nrep, nrun, calls>>
ovars == <<nsent, nran>>
evars == <<epc, esrc, efn, eglobals, eres, lastNs>>
vars == <<hvars, wvars, cvars, ovars, evars>>

EmptySlot == [st |-> "empty", val |-> NoVal]
NoSlot == [st |-> "none", val |-> NoVal]

\* ------------------------------------------------------------ source code
\* A source string for execute_code: its statements, and whether it holds a
\* NUL byte.  The statements bind a name to a text literal (x = '10') or to
\* the value of another name (y = x).
Names == {"x", "y"}
Unbound == ""
Lit(name, text) == [kind |-> "lit", to |-> name, from |-> "", text |-> text]
Ref(name, other) == [kind |-> "ref", to |-> name, from |-> other, text |-> ""]
Source(code) == [nul |-> FALSE, code |-> code]

SetX == Source(<<Lit("x", "10")>>)
CopyX == Source(<<Ref("y", "x")>>)
Blank == Source(<<>>)
NulSource == [nul |-> TRUE, code |-> <<>>]
Sources == {SetX, CopyX, Blank, NulSource}

\* The extractors: the tests' read of x as a String, and execute_code_'s
\* |_, _| Ok(()).
Fns == {"x", "unit"}

EmptyNs == [n \in Names |-> Unbound]

\* Variant: the dict of the previous call is used again.
PyDictNewShared == lastNs

\* PyDict::new(py)
PyDictNew == EmptyNs

\* py.run(code, Some(&globals), None): the statements in order against the
\* dict; reading a name that is not bound raises.
RECURSIVE RunCode(_, _)
RunCode(code, ns) ==
    IF code = <<>> THEN [ok |-> TRUE, ns |-> ns]
    ELSE LET st == Head(code) IN
         IF st.kind = "ref" /\ ns[st.from] = Unbound
         THEN [ok |-> FALSE, ns |-> ns]
         ELSE RunCode(Tail(code),
                      [ns EXCEPT ![st.to] = IF st.kind = "lit" THEN st.text ELSE ns[st.from]])

OkText(t) == [tag |-> "Ok", val |-> 0, str |-> <<t>>, msg |-> "", class |-> ""]
OkUnit == OkVal(0)

\* f(py, globals): get_item(name)?.unwrap().extract::<String>() panics on a
\* name the dict does not hold.
Extract(f, ns) ==
    CASE f = "unit" -> OkUnit
      [] f # "unit" /\ ns[f] = Unbound -> Panicked
      [] OTHER -> OkText(ns[f])

Init ==
    /\ pyReady \in BOOLEAN
    /\ hst = [h \in Handles |-> "none"]
    /\ hfile = [h \in Handles |-> NoPath]
    /\ wpc = [h \in Handles |-> "none"]
    /\ wmod = [h \in Handles |-> NoPath]
    /\ wcur = [h \in Handles |-> NoMsg]
    /\ initSent = [h \in Handles |-> "none"]
    /\ initTaken = [h \in Handles |-> FALSE]
    /\ initGone = [h \in Handles |-> FALSE]
    /\ chan = [h \in Handles |-> <<>>]
    /\ rcvAlive = [h \in Handles |-> FALSE]
    /\ gil = Free
    /\ cpc = [c \in Callers |-> "idle"]
    /\ ch = [c \in Callers |-> 0]
    /\ cop = [c \in Callers |-> ""]
    /\ ctk = [c \in Callers |-> 0]
    /\ slot = [c \in Callers |-> NoSlot]
    /\ cres = [c \in Callers |-> NoVal]
    /\ late = [c \in Callers |-> FALSE]
    /\ nrep = [c \in Callers |-> 0]
    /\ nrun = [c \in Callers |-> 0]
    /\ calls = 0
    /\ nsent = [h \in Handles |-> 0]
    /\ nran = [h \in Handles |-> 0]
    /\ epc = [e \in Execs |-> "idle"]
    /\ esrc = [e \in Execs |-> Blank]
    /\ efn = [e \in Execs |-> "unit"]
    /\ eglobals = [e \in Execs |-> EmptyNs]
    /\ eres = [e \in Execs |-> NoVal]
    /\ lastNs = EmptyNs

\* The handle owns the only Sender of the task channel: it exists from the
\* channel's creation until new_project returns Err or the handle is dropped.
SenderAlive(h) == hst[h] \in {"recv", "held"}

\* The worker has left (or never entered) its task loop.
LeftLoop(h) == wpc[h] \in {"exit", "dropping", "finished"}

\* thread_handle.is_finished()
is_finished(h) == wpc[h] = "finished"

\* ------------------------------------------------------------- new_project
\* Lines 75-120: the file check, the channels and the spawn.
new_project(h, init_file) ==
    /\ hst[h] = "none"
    /\ IF ~is_file(init_file)
       THEN /\ hst' = [hst EXCEPT ![h] = "notfound"]
            /\ UNCHANGED <<hfile, wpc, rcvAlive>>
       ELSE /\ hst' = [hst EXCEPT ![h] = "recv"]
            /\ hfile' = [hfile EXCEPT ![h] = init_file]
            /\ wpc' = [wpc EXCEPT ![h] = "start"]
            /\ rcvAlive' = [rcvAlive EXCEPT ![h] = TRUE]
    /\ UNCHANGED <<pyReady, wmod, wcur, initSent, initTaken, initGone, chan, gil, cvars, ovars, evars>>

Load(h) == \E call \in LoadCalls : new_project(h, InitFile(call))

\* Lines 121-128: init_receiver.recv() and the return value.
InitRecv(h) ==
    /\ hst[h] = "recv"
    /\ initSent[h] # "none" \/ initGone[h]
    /\ IF initSent[h] # "none"
       THEN /\ initTaken' = [initTaken EXCEPT ![h] = TRUE]
            /\ hst' = [hst EXCEPT ![h] = IF initSent[h] = "ok" THEN "held" ELSE "initerr"]
       ELSE /\ hst' = [hst EXCEPT ![h] = "held"]
            /\ UNCHANGED initTaken
    /\ UNCHANGED <<pyReady, hfile, wpc, wmod, wcur, initSent, initGone, chan, rcvAlive, gil, cvars, ovars, evars>>

\* ------------------------------------------------------------------ worker
\* Line 87: Python::with_gil takes the GIL.  It panics when the interpreter
\* is not initialized and the build does not initialize it on demand: the
\* thread then unwinds before any init result is sent.
WithGil(h) ==
    /\ wpc[h] = "start"
    /\ IF ~pyReady
       THEN /\ wpc' = [wpc EXCEPT ![h] = "dropping"]
            /\ UNCHANGED gil
       ELSE /\ gil = Free
            /\ gil' = W(h)
            /\ wpc' = [wpc EXCEPT ![h] = "init"]
    /\ UNCHANGED <<hvars, wmod, wcur, initSent, initTaken, initGone, chan, rcvAlive, cvars, ovars, evars>>

\* Lines 88-107, 113: init() and the offer of its result on the rendezvous
\* init channel.
RunInit(h) ==
    /\ wpc[h] = "init"
    /\ IF LoaderRaises(hfile[h])
       THEN /\ initSent' = [initSent EXCEPT ![h] = "err"]
            /\ UNCHANGED wmod
       ELSE /\ initSent' = [initSent EXCEPT ![h] = "ok"]
            /\ wmod' = [wmod EXCEPT ![h] = hfile[h]]
    /\ wpc' = [wpc EXCEPT ![h] = "sendinit"]
    /\ UNCHANGED <<hvars, wcur, initTaken, initGone, chan, rcvAlive, gil, cvars, ovars, evars>>

\* init_sender.send returns once the constructor has taken the value: the
\* worker enters the task loop after Ok and leaves after Err.
InitSendReturn(h) ==
    /\ wpc[h] = "sendinit"
    /\ initTaken[h]
    /\ wpc' = [wpc EXCEPT ![h] = IF initSent[h] = "ok" THEN "loop" ELSE "exit"]
    /\ UNCHANGED <<hvars, wmod, wcur, initSent, initTaken, initGone, chan, rcvAlive, gil, cvars, ovars, evars>>

\* Variant: the worker waits for the next message with the GIL held.
AllowThreadsKeepsGil(h) ==
    /\ wpc[h] = "loop"
    /\ wpc' = [wpc EXCEPT ![h] = "recv"]
    /\ UNCHANGED <<hvars, wmod, wcur, initSent, initTaken, initGone, chan, rcvAlive, gil, cvars, ovars, evars>>

\* Line 108: py.allow_threads releases the GIL around task_receiver.recv().
AllowThreads(h) ==
    /\ wpc[h] = "loop"
    /\ gil' = Free
    /\ wpc' = [wpc EXCEPT ![h] = "recv"]
    /\ UNCHANGED <<hvars, wmod, wcur, initSent, initTaken, initGone, chan, rcvAlive, cvars, ovars, evars>>

\* Variants: a receive that hands out the newest message; a receive that
\* leaves the message in the queue.
NextMsgNewest(q) == q[Len(q)]
RestKeep(q) == q

\* The message recv() hands out: the oldest one.
NextMsg(q) == Head(q)
Rest(q) == Tail(q)

\* Line 108: task_receiver.recv() blocks until a message is there or every
\* sender is gone.
TaskRecv(h) ==
    /\ wpc[h] = "recv"
    /\ chan[h] # <<>> \/ ~SenderAlive(h)
    /\ IF chan[h] # <<>>
       THEN /\ wcur' = [wcur EXCEPT ![h] = NextMsg(chan[h])]
            /\ chan' = [chan EXCEPT ![h] = Rest(chan[h])]
       ELSE /\ wcur' = [wcur EXCEPT ![h] = Disconnected]
            /\ UNCHANGED chan
    /\ wpc' = [wpc EXCEPT ![h] = "reacq"]
    /\ UNCHANGED <<hvars, wmod, initSent, initTaken, initGone, rcvAlive, gil, cvars, ovars, evars>>

\* Line 108: allow_threads takes the GIL back; `while let Ok(Some(task))`
\* goes on to the task or leaves the loop.
Reacquire(h) ==
    /\ wpc[h] = "reacq"
    /\ gil = Free
    /\ gil' = W(h)
    /\ wpc' = [wpc EXCEPT ![h] = IF wcur[h].kind = "Some" THEN "run" ELSE "exit"]
    /\ UNCHANGED <<hvars, wmod, wcur, initSent, initTaken, initGone, chan, rcvAlive, cvars, ovars, evars>>

\* Variant: one slot shared by all calls.
ReplySlotShared(task) == 1

\* The slot a task replies into: the one its own call created.
ReplySlot(task) == task.c

\* Variant: every worker runs its tasks against one fixed module.
TaskModuleFirst(h) == ProjectMain

\* The module a task is run against.
TaskModule(h) == wmod[h]

\* Variant: a task that returned Err ends the loop.
AfterTaskErrLeaves(result) == IF result.tag = "Err" THEN "exit" ELSE "loop"

\* Where the worker goes after a task that returned.
AfterTask(result) == "loop"

\* Lines 109, 54-57: task(&py, &module) runs call and sends its result into
\* the slot; a panic in call unwinds the closure, dropping the slot's sender
\* with nothing sent, and the worker thread with it.
RunTask(h) ==
    /\ wpc[h] = "run"
    /\ LET task == wcur[h]
           result == Eval(task.op, TaskModule(h))
           s == ReplySlot(task)
       IN  /\ nran' = [nran EXCEPT ![h] = @ + 1]
           /\ nrun' = [nrun EXCEPT ![s] = @ + 1]
           /\ IF result.tag = "Panic"
              THEN /\ slot' = [slot EXCEPT ![s] = [@ EXCEPT !.st = IF @ = "empty" THEN "closed" ELSE @]]
                   /\ wpc' = [wpc EXCEPT ![h] = "exit"]
                   /\ UNCHANGED nrep
              ELSE /\ slot' = [slot EXCEPT ![s] = [st |-> "full", val |-> result]]
                   /\ nrep' = [nrep EXCEPT ![s] = @ + 1]
                   /\ wpc' = [wpc EXCEPT ![h] = AfterTask(result)]
    /\ wcur' = [wcur EXCEPT ![h] = NoMsg]
    /\ UNCHANGED <<hvars, wmod, initSent, initTaken, initGone, chan, rcvAlive, gil, cpc, ch, cop, ctk, cres, late, calls, nsent, evars>>

\* Line 118: with_gil ends (by return or by unwinding) and releases the GIL.
ReleaseGil(h) ==
    /\ wpc[h] = "exit"
    /\ gil' = Free
    /\ wpc' = [wpc EXCEPT ![h] = "dropping"]
    /\ UNCHANGED <<hvars, wmod, wcur, initSent, initTaken, initGone, chan, rcvAlive, cvars, ovars, evars>>

\* Line 120: the thread closure's captured init_sender is dropped.
DropInitSender(h) ==
    /\ wpc[h] = "dropping"
    /\ ~initGone[h]
    /\ initGone' = [initGone EXCEPT ![h] = TRUE]
    /\ UNCHANGED <<hvars, wpc, wmod, wcur, initSent, initTaken, chan, rcvAlive, gil, cvars, ovars, evars>>

\* Callers whose task is still in the queue.
Queued(q) == {q[i].c : i \in {j \in 1..Len(q) : q[j].kind = "Some"}}

\* Variant: a dropped receiver leaves the queued tasks allocated.
DiscardedNone(q) == {}

\* The tasks a dropped receiver frees with the queue: all that are queued.
Discarded(q) == Queued(q)

\* Line 120: the captured task_receiver is dropped.  The last receiver of a
\* crossbeam unbounded channel discards the queued messages on drop, which
\* drops the slot senders the queued tasks hold.
DropTaskReceiver(h) ==
    /\ wpc[h] = "dropping"
    /\ rcvAlive[h]
    /\ rcvAlive' = [rcvAlive EXCEPT ![h] = FALSE]
    /\ chan' = [chan EXCEPT ![h] = <<>>]
    /\ slot' = [c \in Callers |->
                  IF c \in Discarded(chan[h]) /\ slot[c].st = "empty"
                  THEN [slot[c] EXCEPT !.st = "closed"] ELSE slot[c]]
    /\ UNCHANGED <<hvars, wpc, wmod, wcur, initSent, initTaken, initGone, gil, cpc, ch, cop, ctk, cres, late, nrep, nrun, calls, ovars, evars>>

\* The thread's result is stored: is_finished() turns true.
Finish(h) ==
    /\ wpc[h] = "dropping"
    /\ initGone[h]
    /\ ~rcvAlive[h]
    /\ wpc' = [wpc EXCEPT ![h] = "finished"]
    /\ UNCHANGED <<hvars, wmod, wcur, initSent, initTaken, initGone, chan, rcvAlive, gil, cvars, ovars, evars>>

\* ------------------------------------------------------------------ action
\* Variants: no liveness probe; a send whose failure is ignored.
ProbeNever(h) == FALSE
SendOkAlways(h) == TRUE

\* task_sender.send succeeds while the channel's receiver exists.
SendOk(h) == rcvAlive[h]

\* What the liveness probe of line 45 answers.
Probe(h) == is_finished(h)

\* Variant: a call through a handle that was already dropped.
ActionBeginAfterDrop(c, h, op) ==
    /\ cpc[c] = "idle"
    /\ calls < MaxCalls
    /\ hst[h] \in {"held", "dropped"}
    /\ calls' = calls + 1
    /\ late' = [late EXCEPT ![c] = LeftLoop(h)]
    /\ nrep' = [nrep EXCEPT ![c] = 0]
    /\ nrun' = [nrun EXCEPT ![c] = 0]
    /\ IF Probe(h)
       THEN /\ cres' = [cres EXCEPT ![c] = WorkerExited]
            /\ UNCHANGED <<cpc, ch, cop, slot>>
       ELSE /\ cres' = [cres EXCEPT ![c] = NoVal]
            /\ ch' = [ch EXCEPT ![c] = h]
            /\ cop' = [cop EXCEPT ![c] = op]
            /\ slot' = [slot EXCEPT ![c] = EmptySlot]
            /\ cpc' = [cpc EXCEPT ![c] = "send"]
    /\ UNCHANGED ctk
    /\ UNCHANGED <<hvars, wvars, ovars, evars>>

\* Lines 45-57: the is_finished probe, then the slot and the boxed task.
ActionBegin(c, h, op) ==
    /\ cpc[c] = "idle"
    /\ calls < MaxCalls
    /\ hst[h] = "held"
    /\ calls' = calls + 1
    /\ late' = [late EXCEPT ![c] = LeftLoop(h)]
    /\ nrep' = [nrep EXCEPT ![c] = 0]
    /\ nrun' = [nrun EXCEPT ![c] = 0]
    /\ IF Probe(h)
       THEN /\ cres' = [cres EXCEPT ![c] = WorkerExited]
            /\ UNCHANGED <<cpc, ch, cop, slot>>
       ELSE /\ cres' = [cres EXCEPT ![c] = NoVal]
            /\ ch' = [ch EXCEPT ![c] = h]
            /\ cop' = [cop EXCEPT ![c] = op]
            /\ slot' = [slot EXCEPT ![c] = EmptySlot]
            /\ cpc' = [cpc EXCEPT ![c] = "send"]
    /\ UNCHANGED ctk
    /\ UNCHANGED <<hvars, wvars, ovars, evars>>

\* Variant: the operation is invoked by the calling thread instead of sent.
ActionSendRunsInline(c) ==
    /\ cpc[c] = "send"
    /\ slot' = [slot EXCEPT ![c] = [st |-> "full", val |-> Eval(cop[c], hfile[ch[c]])]]
    /\ nrun' = [nrun EXCEPT ![c] = @ + 1]
    /\ nrep' = [nrep EXCEPT ![c] = @ + 1]
    /\ cpc' = [cpc EXCEPT ![c] = "wait"]
    /\ UNCHANGED <<hvars, wvars, ch, cop, ctk, cres, late, calls, ovars, evars>>

\* Lines 59-61: task_sender.send(Some(task)); a failed send drops the task
\* and returns the "Task send failed" error.
ActionSend(c) ==
    /\ cpc[c] = "send"
    /\ LET h == ch[c] IN
         IF SendOk(h)
         THEN /\ chan' = [chan EXCEPT ![h] = Append(@, Some(c, nsent[h] + 1, cop[c]))]
              /\ nsent' = [nsent EXCEPT ![h] = @ + 1]
              /\ ctk' = [ctk EXCEPT ![c] = nsent[h] + 1]
              /\ cpc' = [cpc EXCEPT ![c] = "wait"]
              /\ UNCHANGED <<cres, slot, ch, cop>>
         ELSE /\ cres' = [cres EXCEPT ![c] = SendFailed]
              /\ slot' = [slot EXCEPT ![c] = NoSlot]
              /\ cpc' = [cpc EXCEPT ![c] = "idle"]
              /\ ch' = [ch EXCEPT ![c] = 0]
              /\ cop' = [cop EXCEPT ![c] = ""]
              /\ UNCHANGED <<chan, nsent, ctk>>
    /\ UNCHANGED <<hvars, wpc, wmod, wcur, initSent, initTaken, initGone, rcvAlive, gil, late, nrep, nrun, calls, nran, evars>>

\* Variant: a receive that does not notice the dropped sender.
ActionRecvIgnoresDisconnect(c) ==
    /\ cpc[c] = "wait"
    /\ slot[c].st = "full"
    /\ cres' = [cres EXCEPT ![c] = slot[c].val]
    /\ cpc' = [cpc EXCEPT ![c] = "idle"]
    /\ slot' = [slot EXCEPT ![c] = NoSlot]
    /\ ch' = [ch EXCEPT ![c] = 0]
    /\ cop' = [cop EXCEPT ![c] = ""]
    /\ ctk' = [ctk EXCEPT ![c] = 0]
    /\ UNCHANGED <<hvars, wvars, late, nrep, nrun, calls, ovars, evars>>

\* Line 63: receiver.recv().unwrap() returns the reply, or panics when the
\* slot's sender was dropped with nothing sent.
ActionRecv(c) ==
    /\ cpc[c] = "wait"
    /\ slot[c].st \in {"full", "closed"}
    /\ IF slot[c].st = "full"
       THEN /\ cres' = [cres EXCEPT ![c] = slot[c].val]
            /\ cpc' = [cpc EXCEPT ![c] = "idle"]
       ELSE /\ cres' = [cres EXCEPT ![c] = Panicked]
            /\ cpc' = [cpc EXCEPT ![c] = "dead"]
    /\ slot' = [slot EXCEPT ![c] = NoSlot]
    /\ ch' = [ch EXCEPT ![c] = 0]
    /\ cop' = [cop EXCEPT ![c] = ""]
    /\ ctk' = [ctk EXCEPT ![c] = 0]
    /\ UNCHANGED <<hvars, wvars, late, nrep, nrun, calls, ovars, evars>>

\* -------------------------------------------------------------------- Drop
\* Variant: a drop that does not wait for the calls in flight.
BorrowedNever(h) == FALSE

\* No caller is inside action() on the handle: drop takes the handle by
\* unique reference.
Borrowed(h) == \E c \in Callers : cpc[c] \in {"send", "wait"} /\ ch[c] = h

\* Lines 28-32: task_sender.send(None).unwrap(), then the handle's fields
\* are dropped.
Drop(h) ==
    /\ hst[h] = "held"
    /\ ~Borrowed(h)
    /\ IF rcvAlive[h]
       THEN /\ chan' = [chan EXCEPT ![h] = Append(@, None)]
            /\ hst' = [hst EXCEPT ![h] = "dropped"]
       ELSE /\ hst' = [hst EXCEPT ![h] = "droppanic"]
            /\ UNCHANGED chan
    /\ UNCHANGED <<pyReady, hfile, wpc, wmod, wcur, initSent, initTaken, initGone, rcvAlive, gil, cvars, ovars, evars>>

\* ------------------------------------------------------------ execute_code
\* Line 141: Python::with_gil, on the calling thread.
execute_code(e, s, f) ==
    /\ epc[e] = "idle"
    /\ calls < MaxCalls
    /\ calls' = calls + 1
    /\ esrc' = [esrc EXCEPT ![e] = s]
    /\ efn' = [efn EXCEPT ![e] = f]
    /\ IF ~pyReady
       THEN /\ eres' = [eres EXCEPT ![e] = Panicked]
            /\ UNCHANGED <<gil, epc>>
       ELSE /\ gil = Free
            /\ gil' = E(e)
            /\ epc' = [epc EXCEPT ![e] = "run"]
            /\ eres' = [eres EXCEPT ![e] = NoVal]
    /\ UNCHANGED <<hvars, wpc, wmod, wcur, initSent, initTaken, initGone, chan, rcvAlive>>
    /\ UNCHANGED <<cpc, ch, cop, ctk, slot, cres, late, nrep, nrun, ovars, eglobals, lastNs>>

\* Lines 142-147: CString::new(s).expect(..), PyDict::new and
\* py.run(..).unwrap(); a panic unwinds with_gil, which releases the GIL.
ExecRun(e) ==
    /\ epc[e] = "run"
    /\ LET r == RunCode(esrc[e].code, PyDictNew) IN
         IF esrc[e].nul \/ ~r.ok
         THEN /\ eres' = [eres EXCEPT ![e] = Panicked]
              /\ gil' = Free
              /\ epc' = [epc EXCEPT ![e] = "idle"]
              /\ UNCHANGED eglobals
         ELSE /\ eglobals' = [eglobals EXCEPT ![e] = r.ns]
              /\ epc' = [epc EXCEPT ![e] = "extract"]
              /\ UNCHANGED <<gil, eres>>
    /\ UNCHANGED <<hvars, wpc, wmod, wcur, initSent, initTaken, initGone, chan, rcvAlive>>
    /\ UNCHANGED <<cvars, ovars, esrc, efn, lastNs>>

\* Lines 148-149: f(py, globals) consumes the dict; with_gil ends.
ExecReturn(e) ==
    /\ epc[e] = "extract"
    /\ eres' = [eres EXCEPT ![e] = Extract(efn[e], eglobals[e])]
    /\ lastNs' = eglobals[e]
    /\ eglobals' = [eglobals EXCEPT ![e] = EmptyNs]
    /\ gil' = Free
    /\ epc' = [epc EXCEPT ![e] = "idle"]
    /\ UNCHANGED <<hvars, wpc, wmod, wcur, initSent, initTaken, initGone, chan, rcvAlive>>
    /\ UNCHANGED <<cvars, ovars, esrc, efn>>

\* ------------------------------------------------------------------- specs
WorkerStep(h) ==
    \/ WithGil(h)
    \/ RunInit(h)
    \/ InitSendReturn(h)
    \/ AllowThreads(h)
    \/ TaskRecv(h)
    \/ Reacquire(h)
    \/ RunTask(h)
    \/ ReleaseGil(h)
    \/ DropInitSender(h)
    \/ DropTaskReceiver(h)
    \/ Finish(h)

Next ==
    \/ \E h \in Handles : Load(h)
    \/ \E h \in Handles : InitRecv(h)
    \/ \E h \in Handles : WithGil(h)
    \/ \E h \in Handles : RunInit(h)
    \/ \E h \in Handles : InitSendReturn(h)
    \/ \E h \in Handles : AllowThreads(h)
    \/ \E h \in Handles : TaskRecv(h)
    \/ \E h \in Handles : Reacquire(h)
    \/ \E h \in Handles : RunTask(h)
    \/ \E h \in Handles : ReleaseGil(h)
    \/ \E h \in Handles : DropInitSender(h)
    \/ \E h \in Handles : DropTaskReceiver(h)
    \/ \E h \in Handles : Finish(h)
    \/ \E c \in Callers, h \in Handles, op \in Ops : ActionBegin(c, h, op)
    \/ \E c \in Callers : ActionSend(c)
    \/ \E c \in Callers : ActionRecv(c)
    \/ \E h \in Handles : Drop(h)

Spec == Init /\ [][Next]_vars

\* A host that also runs inline code: the handles and execute_code share
\* the one interpreter and its GIL.
ExecNext ==
    \/ \E e \in Execs, s \in Sources, f \in Fns : execute_code(e, s, f)
    \/ \E e \in Execs : ExecRun(e)
    \/ \E e \in Execs : ExecReturn(e)

AllNext == Next \/ ExecNext

AllSpec == Init /\ [][AllNext]_vars

\* The steps of threads that are inside the library: a worker, a caller
\* inside action(), a constructor inside init_receiver.recv().  The host's
\* own decisions (to load, to call, to drop) are not among them.
ThreadStep ==
    \/ \E h \in Handles : WorkerStep(h) \/ InitRecv(h)
    \/ \E c \in Callers : ActionSend(c) \/ ActionRecv(c)

\* The scheduler does not stop while some thread inside the library can
\* take a step.
FairSpec == Spec /\ WF_vars(ThreadStep)

\* ------------------------------------------------------------------ claims
InCall(c) == cpc[c] \in {"send", "wait"}
Returned(c) == cpc[c] \in {"idle", "dead"}
Expected(c) == Eval(cop[c], hfile[ch[c]])

\* C1: an operation that the worker ran and that succeeded makes action()
\* return exactly the value the operation produces against the module loaded
\* for the handle the call was made on (add(1, 2) gives 3).
C1_ActionReturnsOpValue ==
    [][\A c \in Callers :
         (cpc[c] = "wait" /\ cpc'[c] # "wait" /\ nrun[c] >= 1 /\ Expected(c).tag = "Ok")
         => (cpc'[c] = "idle" /\ cres'[c] = Expected(c))]_vars

C1_Witness ==
    \E c, d \in Callers, h \in Handles :
        /\ cres[c] = OkVal(3)
        /\ hfile[h] = ModuleInit
        /\ cpc[d] = "wait" /\ ch[d] = h /\ cop[d] = "file"
        /\ slot[d] = [st |-> "full", val |-> OkStr(ModuleInit)]

\* C2: with several callers inside action() on one handle, a slot only ever
\* holds the result of the operation of the call that created it, and the
\* call returns what its own slot holds.
C2_NoCrossTalk ==
    /\ [](\A c \in Callers :
            slot[c].st = "full" => (cpc[c] = "wait" /\ slot[c].val = Expected(c)))
    /\ [][\A c \in Callers :
            (cpc[c] = "wait" /\ cpc'[c] = "idle") => cres'[c] = slot[c].val]_vars

C2_Witness ==
    \E c, d \in Callers :
        /\ c # d /\ ch[c] = ch[d] /\ ch[c] # 0
        /\ cpc[c] = "wait" /\ cpc[d] = "wait"
        /\ cop[c] = "add" /\ cop[d] = "raise"
        /\ slot[c].st = "full" /\ slot[d].st = "full"

\* C3: the k-th task the worker invokes on a handle is the task of the k-th
\* successful send on that handle's channel, and the queue keeps send order.
C3_RunsInSendOrder ==
    /\ [](\A h \in Handles : \A i \in 1..Len(chan[h]) :
            chan[h][i].kind = "Some" =>
                chan[h][i].n = nsent[h] - (Len(SelectSeq(chan[h], LAMBDA m : m.kind = "Some")) - i))
    /\ [][\A h \in Handles :
            nran'[h] # nran[h] => (nran'[h] = nran[h] + 1 /\ wcur[h].n = nran'[h])]_vars

C3_Witness ==
    \E h \in Handles, c, d \in Callers :
        /\ c # d /\ nsent[h] = 2 /\ nran[h] = 2
        /\ ctk[c] = 1 /\ ctk[d] = 2
        /\ slot[c].st = "full" /\ slot[d].st = "full"

\* C4 as stated: no task is invoked twice, no slot gets two replies, and a
\* task that was invoked has placed exactly one reply.
C4_Original ==
    \A c \in Callers :
        /\ nrun[c] <= 1
        /\ nrep[c] <= 1
        /\ nrun[c] >= 1 => nrep[c] = 1

\* C4 amended: no task is invoked twice, no slot gets two replies, a reply
\* comes only from an invocation, and an invoked task whose operation
\* returned (Ok or Err) has placed exactly one reply; one whose operation
\* panicked has placed none.
C4_AtMostOnce ==
    \A c \in Callers :
        /\ nrun[c] <= 1
        /\ nrep[c] <= nrun[c]
        /\ (nrun[c] = 1 /\ InCall(c)) =>
               nrep[c] = (IF Expected(c).tag = "Panic" THEN 0 ELSE 1)
        /\ (nrun[c] = 1 /\ Returned(c)) =>
               nrep[c] = (IF cres[c] = Panicked THEN 0 ELSE 1)

C4_Witness ==
    \E c, d \in Callers :
        /\ nrun[c] = 1 /\ nrep[c] = 1 /\ cres[c].tag = "Ok"
        /\ nrun[d] = 1 /\ nrep[d] = 0 /\ cres[d] = Panicked

\* C5: a call made on a handle whose worker reported successful
\* initialization does not stay inside action() forever: it returns a reply
\* (Ok or Err) or fails, and its slot never received more than one value.
C5_CallCompletes ==
    /\ \A c \in Callers :
          (InCall(c) /\ initSent[ch[c]] = "ok")
              ~> (Returned(c) /\ cres[c].tag \in {"Ok", "Err", "Panic"})
    /\ [](\A c \in Callers : nrep[c] <= 1)

C5_Witness ==
    \E c \in Callers :
        /\ cpc[c] = "wait" /\ initSent[ch[c]] = "ok"
        /\ LeftLoop(ch[c]) /\ slot[c].st = "closed" /\ nrun[c] = 0

\* C6 as stated: a caller holds a handle only if its worker sent a success
\* result on the init channel.
C6_HandleOnlyAfterInitOk ==
    \A h \in Handles :
        hst[h] \in {"held", "dropped", "droppanic"} => initSent[h] = "ok"

\* C7: a load of an entry file that is not a regular file returns an error
\* and spawns no worker; a load whose import raises returns an error, its
\* worker never enters the task loop nor takes a task, and the worker thread
\* ends.
InLoop(h) == wpc[h] \in {"loop", "recv", "reacq", "run"}

C7_FailedLoad ==
    /\ [](\A h \in Handles :
            /\ hst[h] = "notfound" => wpc[h] = "none"
            /\ wpc[h] # "none" => hfile[h] \in RegularFiles
            /\ (wpc[h] # "none" /\ ~LoaderRaises(hfile[h])) => initSent[h] # "err"
            /\ (LoaderRaises(hfile[h]) /\ wpc[h] \in {"sendinit", "exit"}) => initSent[h] = "err"
            /\ initSent[h] = "err" =>
                 /\ hst[h] \in {"recv", "initerr"}
                 /\ ~InLoop(h) /\ nran[h] = 0 /\ wcur[h] = NoMsg /\ wmod[h] = NoPath)
    /\ \A h \in Handles : (initSent[h] = "err") ~> (hst[h] = "initerr" /\ wpc[h] = "finished")

C7_Witness ==
    \E h, g \in Handles :
        /\ hst[h] = "initerr" /\ wpc[h] = "finished" /\ hfile[h] = BrokenMain
        /\ hst[g] = "notfound" /\ wpc[g] = "none"

\* C8: a task whose operation returns Err puts that error into its own
\* call's slot and the worker stays in the task loop with the queue intact;
\* a task queued behind it (with no panicking operation up to and including
\* itself) is still run and answered.
ErrorTask(h) == wcur[h].kind = "Some" /\ Eval(wcur[h].op, wmod[h]).tag = "Err"

BehindError(c) ==
    /\ cpc[c] = "wait" /\ ch[c] # 0
    /\ ErrorTask(ch[c])
    /\ c \in Queued(chan[ch[c]])
    /\ \A i \in 1..Len(chan[ch[c]]) :
          chan[ch[c]][i].n <= ctk[c] => Eval(chan[ch[c]][i].op, wmod[ch[c]]).tag \in {"Ok", "Err"}

C8_TaskErrorKeepsLoop ==
    /\ [][\A h \in Handles :
            (ErrorTask(h) /\ nran'[h] # nran[h]) =>
                /\ slot'[wcur[h].c] = [st |-> "full", val |-> ErrVal("TaskError")]
                /\ cop[wcur[h].c] = wcur[h].op
                /\ wpc'[h] = "loop"
                /\ chan'[h] = chan[h]
                /\ rcvAlive'[h]]_vars
    /\ \A c \in Callers :
          BehindError(c) ~> (cpc[c] = "idle" /\ cres[c].tag \in {"Ok", "Err"} /\ nrun[c] = 1)

C8_Witness ==
    \E h \in Handles, c, d \in Callers :
        /\ cres[c] = ErrVal("TaskError") /\ cpc[c] = "idle"
        /\ cpc[d] = "wait" /\ ch[d] = h /\ ctk[d] = 2 /\ nran[h] = 2
        /\ slot[d].st = "full" /\ slot[d].val.tag = "Ok"

\* C9: a call of action() on a handle whose worker thread has finished
\* returns the "Python thread has exited" error in that very step: no slot,
\* no task, and nothing about any task channel changes.
C9_ExitedProbeSendsNothing ==
    [][\A c \in Callers, h \in Handles, op \in Ops :
         (ActionBegin(c, h, op) /\ wpc[h] = "finished") =>
             /\ cres'[c] = WorkerExited
             /\ cpc'[c] = "idle"
             /\ slot' = slot
             /\ chan' = chan /\ nsent' = nsent]_vars

C9_Witness ==
    \E c \in Callers : cpc[c] = "idle" /\ cres[c] = WorkerExited /\ late[c]

\* C10 as stated: a call begun after the worker left its task loop returns
\* an error value.
C10_Original ==
    \A c \in Callers : (late[c] /\ Returned(c)) => cres[c].tag = "Err"

\* C10 amended: a call begun after the worker left its task loop never stays
\* blocked: it returns the worker-exited or the send-failed error, or, when
\* the probe and the send both passed before the receiver was dropped, it
\* fails with the panic of receiver.recv().unwrap().
C10_LateCallEnds ==
    /\ [](\A c \in Callers :
            (late[c] /\ Returned(c)) => cres[c] \in {WorkerExited, SendFailed, Panicked})
    /\ [](\A c \in Callers : late[c] => nrun[c] = 0)
    /\ \A c \in Callers : (late[c] /\ InCall(c)) ~> Returned(c)

C10_Witness ==
    \E c \in Callers : late[c] /\ cpc[c] = "dead" /\ cres[c] = Panicked

\* C11: when the probe passed and the task receiver is gone at send time,
\* action() returns (it does not panic) an error of the same exception class
\* as the worker-exited error, and nothing is put on any task channel.
C11_SendFailedIsError ==
    [][\A c \in Callers :
         (cpc[c] = "send" /\ cpc'[c] # "send" /\ ~rcvAlive[ch[c]]) =>
             /\ cpc'[c] = "idle"
             /\ cres'[c].tag = "Err"
             /\ cres'[c].class = WorkerExited.class
             /\ slot'[c] = NoSlot
             /\ chan' = chan /\ nsent' = nsent]_vars

C11_Witness ==
    \E c \in Callers : cpc[c] = "idle" /\ cres[c] = SendFailed /\ ~late[c]

\* C12 as stated: a channel never holds two shutdown signals, a shutdown
\* signal is only ever put there by the drop of the handle, and every drop
\* of a handle puts exactly one there and leaves the worker where it is.
NoneCount(q) == Len(SelectSeq(q, LAMBDA m : m.kind = "None"))

C12_ExactlyOneSignal ==
    /\ [](\A h \in Handles : NoneCount(chan[h]) <= 1)
    /\ [][\A h \in Handles :
            NoneCount(chan'[h]) > NoneCount(chan[h]) => (hst[h] = "held" /\ hst'[h] # "held")]_vars
    /\ [][\A h \in Handles :
            (hst[h] = "held" /\ hst'[h] # "held") =>
                (chan'[h] = Append(chan[h], None) /\ wpc'[h] = wpc[h])]_vars

\* C13: once a handle is dropped nothing more is enqueued on its channel and
\* no call is in flight on it; the worker leaves the loop on the shutdown
\* signal and its thread ends.
C13_DroppedHandleEnds ==
    /\ [][\A h \in Handles :
            hst[h] \in {"dropped", "droppanic"} =>
                /\ hst'[h] = hst[h]
                /\ nsent'[h] = nsent[h]
                /\ Queued(chan'[h]) \subseteq Queued(chan[h])]_vars
    /\ [][\A h \in Handles :
            (hst[h] = "dropped" /\ wpc[h] = "reacq" /\ wpc'[h] # "reacq") =>
                (wcur[h] = None /\ wpc'[h] = "exit")]_vars
    /\ [](\A c \in Callers : InCall(c) => hst[ch[c]] = "held")
    /\ \A h \in Handles : (hst[h] \in {"dropped", "droppanic"}) ~> (wpc[h] = "finished")

C13_Witness ==
    \E h \in Handles :
        hst[h] = "dropped" /\ wpc[h] = "finished" /\ nran[h] >= 1 /\ wcur[h] = None

\* C14: every execute_code call runs its source against a dict that starts
\* empty: what py.run leaves in it depends on the source alone; x = '10'
\* read back as x gives "10" every time; a source that reads, or an
\* extractor that asks for, a name only an earlier call bound fails.
ExecEnded(e) == epc[e] = "idle" /\ eres[e] # NoVal /\ pyReady

WorkerHolds(h) == wpc[h] \in {"init", "sendinit", "loop", "run", "exit"}
ExecHolds(e) == epc[e] \in {"run", "extract"}

C15_GilExclusive ==
    /\ \A h \in Handles : WorkerHolds(h) <=> gil = W(h)
    /\ \A e \in Execs : ExecHolds(e) <=> gil = E(e)
    /\ Cardinality({h \in Handles : WorkerHolds(h)}) + Cardinality({e \in Execs : ExecHolds(e)}) <= 1
    /\ \A h \in Handles :
          wpc[h] \in {"recv", "reacq"} => (gil # W(h) /\ wmod[h] # NoPath)

C15_Witness ==
    \E h, g \in Handles, e \in Execs :
        /\ wpc[h] = "recv" /\ chan[h] = <<>> /\ hst[h] = "held"
        /\ wpc[g] = "run" /\ gil = W(g)
        /\ epc[e] = "idle" /\ eres[e].tag = "Ok"

\* C16: the lifecycle of a handle, read off the constructor's and the
\* handle's state and the worker thread's end.
Lifecycle(h) ==
    CASE hst[h] = "none" -> "NotCreated"
      [] hst[h] = "recv" -> "Initializing"
      [] hst[h] \in {"notfound", "initerr"} -> "Failed"
      [] hst[h] = "held" -> "Ready"
      [] hst[h] \in {"dropped", "droppanic"} /\ wpc[h] # "finished" -> "ShuttingDown"
      [] OTHER -> "Terminated"

LifecycleSteps ==
    { <<"NotCreated", "Initializing">>, <<"NotCreated", "Failed">>,
      <<"Initializing", "Ready">>, <<"Initializing", "Failed">>,
      <<"Ready", "ShuttingDown">>, <<"ShuttingDown", "Terminated">> }

CallsOnlyInReady ==
    [][\A c \in Callers :
         ((cpc[c] = "idle" /\ cpc'[c] = "send") => Lifecycle(ch'[c]) = "Ready")
         /\ ((cpc[c] = "send" /\ cpc'[c] = "wait") => Lifecycle(ch[c]) = "Ready")]_vars

\* C16 as stated: a handle only takes the listed transitions (a load enters
\* the machine in Initializing, or in Failed when the file check fails), and
\* calls are accepted only in Ready.
C16_LifecycleTransitions ==
    /\ [][\A h \in Handles :
            Lifecycle(h)' # Lifecycle(h) => <<Lifecycle(h), Lifecycle(h)'>> \in LifecycleSteps]_vars
    /\ CallsOnlyInReady

\* C17: a caller blocked on the slot of a task that is queued, or being run,
\* when the worker leaves the loop is released by the disconnection of its
\* slot (the panic of recv().unwrap()) while the handle still owns the task
\* sender; none stays blocked.
Pending(c) == cpc[c] = "wait" /\ slot[c].st # "full" /\ LeftLoop(ch[c])

C17_PendingCallersReleased ==
    /\ \A c \in Callers : Pending(c) ~> (cpc[c] = "dead" /\ cres[c] = Panicked)
    /\ [][\A c \in Callers :
            (Pending(c) /\ cpc'[c] # "wait") =>
                (cpc'[c] = "dead" /\ cres'[c] = Panicked /\ SenderAlive(ch[c]))]_vars

C17_Witness ==
    \E c, d \in Callers :
        /\ cpc[c] = "dead" /\ cres[c] = Panicked /\ nrun[c] = 1
        /\ cpc[d] = "dead" /\ cres[d] = Panicked /\ nrun[d] = 0 /\ ~late[d]

\* C18: an operation is invoked only in a step of the worker of the handle
\* the call was made on, which holds the GIL and works on the module it
\* loaded itself, while every caller stays where it is; a module is loaded
\* once, by its worker; a handle's worker thread is spawned once.
C18_OpsRunOnWorker ==
    /\ [][\A c \in Callers :
            nrun'[c] > nrun[c] =>
                /\ cpc[c] = "wait" /\ cpc' = cpc
                /\ wpc[ch[c]] = "run" /\ wpc'[ch[c]] # "run"
                /\ gil = W(ch[c])
                /\ wcur[ch[c]].c = c
                /\ wmod[ch[c]] = hfile[ch[c]]]_vars
    /\ [][\A h \in Handles :
            wmod'[h] # wmod[h] =>
                (wmod[h] = NoPath /\ wpc[h] = "init" /\ gil = W(h) /\ cpc' = cpc)]_vars
    /\ [][\A h \in Handles :
            (wpc[h] # "none" /\ wpc'[h] # wpc[h]) => wpc'[h] \notin {"none", "start"}]_vars

C18_Witness ==
    \E c, d \in Callers :
        /\ cpc[c] = "wait" /\ cpc[d] = "wait" /\ ch[c] # ch[d]
        /\ nrun[c] = 1 /\ nrun[d] = 1
        /\ slot[c].st = "full" /\ slot[d].st = "full"

\* C19 as stated: no drop of a handle fails.
C19_DropNeverFails ==
    \A h \in Handles : hst[h] # "droppanic"

\* C20: when the drop enqueues the shutdown signal the handle's channel
\* holds no task, its worker holds none and no call is in flight on it; the
\* signal is alone in the queue, and the receiver of a dropped handle
\* discards no task when it is dropped.
C20_ShutdownBehindNothing ==
    /\ [][\A h \in Handles :
            (hst[h] = "held" /\ hst'[h] = "dropped") =>
                /\ Queued(chan[h]) = {}
                /\ wcur[h].kind # "Some"
                /\ \A c \in Callers : ~(InCall(c) /\ ch[c] = h)]_vars
    /\ [](\A h \in Handles : NoneCount(chan[h]) > 0 => chan[h] = <<None>>)
    /\ [](\A h \in Handles :
            hst[h] = "dropped" => (Queued(chan[h]) = {} /\ wcur[h].kind # "Some"))
    /\ [][\A h \in Handles :
            (hst[h] = "dropped" /\ rcvAlive[h] /\ ~rcvAlive'[h]) => Discarded(chan[h]) = {}]_vars

C20_Witness ==
    \E h \in Handles :
        hst[h] = "dropped" /\ chan[h] = <<None>> /\ nran[h] = 2 /\ wpc[h] = "recv"

====
